---------------------------- MODULE Spec2Model ----------------------------
(***************************************************************************)
(* A model of scripts/parse_ocmr.py: the free-text oil-analysis report     *)
(* parser (parse_value, parse_text_file, extract_row, process_file), and   *)
(* of lib/python/predict.py, the prediction shim (load_model, predict,     *)
(* main).                                                                  *)
(*                                                                         *)
(* Python strings are sequences of one-character strings, so that the      *)
(* substring tests, the regular expressions and the conversions of the     *)
(* code are computed character by character as the code computes them.     *)
(***************************************************************************)
EXTENDS Integers, Sequences, FiniteSets, TLC

VARIABLES
    val,                  \* parse_value: its argument
    ret,                  \* parse_value: what it returned ("pending" record before the call)
    content,              \* parse_text_file: the text of the input file
    output_map,           \* process_file: category -> output file
    pc,                   \* position in process_file / parse_text_file
    created_at_val,       \* the date of the header, as records carry it
    tokens,               \* content.split()
    blocks,               \* the blocks of consecutive sample-id token indices
    bi,                   \* number of blocks already handled by the block loop
    category,             \* locals of the block loop, as the last iteration left them
    sample_ids,
    search_text,
    rows,
    categorized_records,  \* the dict category -> records, in insertion order
    ci,                   \* number of categories already handled by process_file
    files,                \* the file system: output file -> written array, or NoFile
    written,              \* every write of process_file, in order
    stdin,                \* predict.py: what main reads from standard input
    input_data,           \* predict.py: main's local, what json.loads returned
    model_file,           \* predict.py: what MODEL_PATH holds
    model,                \* predict.py: main's local, what load_model returned
    predict_calls,        \* predict.py: the models predict was called with
    result,               \* predict.py: main's local
    stdout,               \* predict.py: the objects printed, in order
    exit_code             \* predict.py: the exit status of the process

vars == <<val, ret, content, output_map, pc, created_at_val, tokens, blocks, bi, category,
          sample_ids, search_text, rows, categorized_records, ci, files, written,
          stdin, input_data, model_file, model, predict_calls, result, stdout,
          exit_code>>

\* the variables of predict.py
shim == <<stdin, input_data, model_file, model, predict_calls, result, stdout,
          exit_code>>

(***************************************************************************)
(* Characters                                                              *)
(***************************************************************************)
Digits == {"0", "1", "2", "3", "4", "5", "6", "7", "8", "9"}

DigitVal == [d \in Digits |->
    CASE d = "0" -> 0 [] d = "1" -> 1 [] d = "2" -> 2 [] d = "3" -> 3
      [] d = "4" -> 4 [] d = "5" -> 5 [] d = "6" -> 6 [] d = "7" -> 7
      [] d = "8" -> 8 [] d = "9" -> 9]

UpperMap == [a |-> "A", b |-> "B", c |-> "C", d |-> "D", e |-> "E", f |-> "F",
             g |-> "G", h |-> "H", i |-> "I", j |-> "J", k |-> "K", l |-> "L",
             m |-> "M", n |-> "N", o |-> "O", p |-> "P", q |-> "Q", r |-> "R",
             s |-> "S", t |-> "T", u |-> "U", v |-> "V", w |-> "W", x |-> "X",
             y |-> "Y", z |-> "Z"]

LowerLetters == DOMAIN UpperMap

UpperLetters == {UpperMap[c] : c \in LowerLetters}

\* str.upper() of one character
UpperChar(c) == IF c \in LowerLetters THEN UpperMap[c] ELSE c

\* str.upper()
Upper(s) == [i \in 1..Len(s) |-> UpperChar(s[i])]

\* the characters str.split() and str.strip() treat as white space, and \s
White == {" ", "\t", "\n", "\r"}

\* \w of the re module
IsWord(c) == c \in Digits \/ c \in LowerLetters \/ c \in UpperLetters \/ c = "_"

\* s[a:b] with 1-based inclusive bounds; empty when a > b
Sub(s, a, b) == IF a > b THEN << >> ELSE SubSeq(s, a, b)

\* s.startswith(p)
StartsWith(s, p) == Len(p) <= Len(s) /\ Sub(s, 1, Len(p)) = p

\* whether p occurs in s at position i
OccursAt(s, p, i) ==
    /\ i >= 1
    /\ i + Len(p) - 1 <= Len(s)
    /\ \A k \in 1..Len(p) : s[i + k - 1] = p[k]

\* p in s
Contains(s, p) == \E i \in 1..(Len(s) - Len(p) + 1) : OccursAt(s, p, i)

\* str.strip()
Strip(s) ==
    LET keep == {i \in 1..Len(s) : s[i] \notin White}
    IN  IF keep = {} THEN << >>
        ELSE LET a == CHOOSE i \in keep : \A j \in keep : i <= j
                 b == CHOOSE i \in keep : \A j \in keep : j <= i
             IN  SubSeq(s, a, b)

\* s.replace(c, '') for a one-character c
Remove(s, c) == SelectSeq(s, LAMBDA x : x # c)

(***************************************************************************)
(* Values: None, a float, or a str.  A float is mant / 10^exp in lowest    *)
(* decimal terms (float('5.0') and float('5') are the same float), or nan. *)
(***************************************************************************)
Null == [kind |-> "Null", str |-> << >>, mant |-> 0, exp |-> 0, nan |-> FALSE]

RawString(s) == [kind |-> "RawString", str |-> s, mant |-> 0, exp |-> 0, nan |-> FALSE]

NaN == [kind |-> "Number", str |-> << >>, mant |-> 0, exp |-> 0, nan |-> TRUE]

RECURSIVE Pow10(_)
Pow10(k) == IF k = 0 THEN 1 ELSE 10 * Pow10(k - 1)

Number(m, e) ==
    LET k == CHOOSE k \in 0..e :
                 /\ m % Pow10(k) = 0
                 /\ (k = e \/ m % Pow10(k + 1) # 0 \/ m = 0)
                 /\ (m = 0 => k = e)
    IN  [kind |-> "Number", str |-> << >>, mant |-> m \div Pow10(k), exp |-> e - k,
         nan |-> FALSE]

\* the value of a sequence of decimal digits
RECURSIVE DigitsValue(_)
DigitsValue(ds) ==
    IF ds = << >> THEN 0
    ELSE 10 * DigitsValue(Sub(ds, 1, Len(ds) - 1)) + DigitVal[ds[Len(ds)]]

\* float(s): the parsed float, or Null when float() raises ValueError.
\* Covers the signs, digits, decimal point and 'nan'; exponents, 'inf' and
\* digit-group underscores are outside the alphabets the model feeds it.
float(s) ==
    LET t    == Strip(s)
        sgn  == t # << >> /\ t[1] \in {"-", "+"}
        neg  == t # << >> /\ t[1] = "-"
        body == IF sgn THEN Tail(t) ELSE t
        dots == {i \in 1..Len(body) : body[i] = "."}
        digs == SelectSeq(body, LAMBDA x : x \in Digits)
    IN  IF Upper(body) = <<"N", "A", "N">> THEN NaN
        ELSE IF /\ digs # << >>
                /\ \A i \in 1..Len(body) : body[i] \in Digits \/ body[i] = "."
                /\ Cardinality(dots) <= 1
             THEN LET e == IF dots = {} THEN 0
                           ELSE Len(body) - (CHOOSE i \in dots : TRUE)
                      m == DigitsValue(digs)
                  IN  Number(IF neg THEN 0 - m ELSE m, e)
             ELSE Null

(***************************************************************************)
(* parse_value                                                             *)
(***************************************************************************)
Placeholders == { <<"N", "/", "A">>, <<"N", "/", "C">>, <<"N", "/", "I">>, <<"-">>, << >> }

AmpLt == <<"&", "l", "t", ";">>

\* the sentinel 0.5 returned for trace amounts
Trace == Number(5, 1)

\* parse_value without line 9: the string is tested, parsed and returned as
\* it came
parse_value_NoStrip(v) ==
    IF v.kind = "Null" \/ v.str = << >> THEN Null
    ELSE IF Upper(v.str) \in Placeholders THEN Null
    ELSE IF StartsWith(v.str, <<"<">>) \/ StartsWith(v.str, AmpLt) THEN Trace
    ELSE LET f == float(Remove(v.str, ","))
         IN  IF f.kind = "Number" THEN f ELSE RawString(v.str)

\* parse_value(v): v is Null (None) or RawString(s) (a str)
parse_value(v) ==
    IF v.kind = "Null" \/ v.str = << >> THEN Null
    ELSE LET s == Strip(v.str)
         IN  IF Upper(s) \in Placeholders THEN Null
             ELSE IF StartsWith(s, <<"<">>) \/ StartsWith(s, AmpLt) THEN Trace
             ELSE LET clean_val == Remove(s, ",")
                      f == float(clean_val)
                  IN  IF f.kind = "Number" THEN f ELSE RawString(s)

(***************************************************************************)
(* parse_text_file: normalisation of the text, tokens, blocks              *)
(***************************************************************************)
\* the characters of [\x00-\x08\x0b\x0c\x0e-\x1f] the model's texts use: "BEL" is \x07
Control == {"BEL"}

\* the indices 1..n as a sequence
Indices(n) == [i \in 1..n |-> i]

\* the first index >= j of s that holds no white space (Len(s) + 1 when none)
SkipWhite(s, j) ==
    CHOOSE k \in j..(Len(s) + 1) :
        /\ k = Len(s) + 1 \/ s[k] \notin White
        /\ \A m \in j..(k - 1) : s[m] \in White

\* whether S/I (IGNORECASE) matches s at i
MarkerAt(s, i) ==
    /\ i + 2 <= Len(s)
    /\ UpperChar(s[i]) = "S"
    /\ s[i + 1] = "/"
    /\ UpperChar(s[i + 2]) = "I"

\* where a match of S/I\s*-\s*M (IGNORECASE) starting at i ends, 0 when there is none
SplitIdEnd1(s, i) ==
    IF ~MarkerAt(s, i) THEN 0
    ELSE LET j == SkipWhite(s, i + 3)
         IN  IF j > Len(s) \/ s[j] # "-" THEN 0
             ELSE LET k == SkipWhite(s, j + 1)
                  IN  IF k <= Len(s) /\ UpperChar(s[k]) = "M" THEN k ELSE 0

\* where a match of S/I\s+M (IGNORECASE) starting at i ends, 0 when there is none
SplitIdEnd2(s, i) ==
    IF ~MarkerAt(s, i) THEN 0
    ELSE LET k == SkipWhite(s, i + 3)
         IN  IF k > i + 3 /\ k <= Len(s) /\ UpperChar(s[k]) = "M" THEN k ELSE 0

\* re.sub(r'[\x00-\x08\x0b\x0c\x0e-\x1f]', ' ', content)
ReplaceControl(s) == [i \in 1..Len(s) |-> IF s[i] \in Control THEN " " ELSE s[i]]

\* re.sub(r'S/I\s*-\s*M', 'S/I-M', content, flags=re.IGNORECASE): two matches never
\* overlap (no match holds an S after its first character), so every position
\* where the pattern matches is replaced; the replacement drops the white space
\* of the match and upper-cases it
RepairDash(s) ==
    LET starts  == {i \in 1..Len(s) : UpperChar(s[i]) = "S" /\ SplitIdEnd1(s, i) # 0}
        covered == UNION {i..SplitIdEnd1(s, i) : i \in starts}
        kept    == SelectSeq(Indices(Len(s)), LAMBDA x : x \notin covered \/ s[x] \notin White)
    IN  [x \in 1..Len(kept) |->
            IF kept[x] \in covered THEN UpperChar(s[kept[x]]) ELSE s[kept[x]]]

\* re.sub(r'S/I\s+M', 'S/I-M', content, flags=re.IGNORECASE): the white space of a
\* match becomes one '-'
RepairSpace(s) ==
    LET starts  == {i \in 1..Len(s) : UpperChar(s[i]) = "S" /\ SplitIdEnd2(s, i) # 0}
        covered == UNION {i..SplitIdEnd2(s, i) : i \in starts}
        firstWs == {i + 3 : i \in starts}
        kept    == SelectSeq(Indices(Len(s)),
                             LAMBDA x : x \notin covered \/ s[x] \notin White \/ x \in firstWs)
    IN  [x \in 1..Len(kept) |->
            IF kept[x] \in firstWs THEN "-"
            ELSE IF kept[x] \in covered THEN UpperChar(s[kept[x]]) ELSE s[kept[x]]]

\* lines 29-33
Normalize(s) == RepairSpace(RepairDash(ReplaceControl(s)))

\* str.split(): the maximal runs of characters that are not white space
Split(s) ==
    LET n      == Len(s)
        starts == SelectSeq(Indices(n), LAMBDA x : s[x] \notin White /\ (x = 1 \/ s[x - 1] \in White))
        ends   == SelectSeq(Indices(n), LAMBDA x : s[x] \notin White /\ (x = n \/ s[x + 1] \in White))
    IN  [k \in 1..Len(starts) |-> SubSeq(s, starts[k], ends[k])]

\* " ".join(toks[lo..hi]) (1-based, inclusive)
RECURSIVE Join(_, _, _)
Join(toks, lo, hi) ==
    IF lo > hi THEN << >>
    ELSE IF lo = hi THEN toks[lo]
    ELSE LET mid == (lo + hi) \div 2
         IN  Join(toks, lo, mid) \o <<" ">> \o Join(toks, mid + 1, hi)

\* 'S/I' in t and 'M' in t
IsSampleId(t) == Contains(t, <<"S", "/", "I">>) /\ \E i \in 1..Len(t) : t[i] = "M"

\* line 86 (token indices are 1-based in the model)
SampleIndices(toks) == SelectSeq(Indices(Len(toks)), LAMBDA i : IsSampleId(toks[i]))

\* lines 96-102: the loop over sample_indices[i..], with the blocks closed so far
\* and the block being built
RECURSIVE GroupFrom(_, _, _, _)
GroupFrom(si, i, done, current_block) ==
    IF i > Len(si) THEN Append(done, current_block)
    ELSE IF si[i] = si[i - 1] + 1
         THEN GroupFrom(si, i + 1, done, Append(current_block, si[i]))
         ELSE GroupFrom(si, i + 1, Append(done, current_block), <<si[i]>>)

\* GroupBlocks without the test of line 97: every index is a block of its own
GroupBlocks_Single(si) == [k \in 1..Len(si) |-> <<si[k]>>]

\* lines 93-102
GroupBlocks(si) == IF si = << >> THEN << >> ELSE GroupFrom(si, 2, << >>, <<si[1]>>)

(***************************************************************************)
(* The header date (lines 36-81)                                           *)
(***************************************************************************)
\* the number of characters of the header (line 46)
HeaderLen == 1000

\* line 45
DefaultDate == <<"2", "0", "2", "5", "-", "0", "1", "-", "0", "1",
                 " ", "1", "0", ":", "0", "0", ":", "0", "0">>

\* the time every date gets (lines 43 and 67)
TenOClock == <<" ", "1", "0", ":", "0", "0", ":", "0", "0">>

\* the alternatives of months (line 49), upper-cased, and month_map's values
Months == << <<"J", "A", "N">>, <<"F", "E", "B">>, <<"M", "A", "R">>, <<"A", "P", "R">>,
             <<"M", "A", "Y">>, <<"J", "U", "N">>, <<"J", "U", "L">>, <<"A", "U", "G">>,
             <<"S", "E", "P">>, <<"O", "C", "T">>, <<"N", "O", "V">>, <<"D", "E", "C">> >>

MonthNumbers == << <<"0", "1">>, <<"0", "2">>, <<"0", "3">>, <<"0", "4">>,
                   <<"0", "5">>, <<"0", "6">>, <<"0", "7">>, <<"0", "8">>,
                   <<"0", "9">>, <<"1", "0">>, <<"1", "1">>, <<"1", "2">> >>

\* s.zfill(2) for a string of digits
zfill2(s) == IF Len(s) = 0 THEN <<"0", "0">> ELSE IF Len(s) = 1 THEN <<"0">> \o s ELSE s

\* lines 42 and 65: a year of two digits gets the century 20
WithCentury(year) == IF Len(year) = 2 THEN <<"2", "0">> \o year ELSE year

\* lines 36-43
parse_date_str(day, month, year) ==
    LET key  == Upper(Sub(month, 1, 3))
        hits == {k \in 1..12 : Months[k] = key}
        m    == IF hits = {} THEN <<"0", "1">> ELSE MonthNumbers[CHOOSE k \in hits : TRUE]
    IN  WithCentury(year) \o <<"-">> \o m \o <<"-">> \o zfill2(day) \o TenOClock

\* the first index >= i of s that holds no digit (Len(s) + 1 when none)
DigitsEnd(s, i) ==
    CHOOSE k \in i..(Len(s) + 1) :
        /\ k = Len(s) + 1 \/ s[k] \notin Digits
        /\ \A m \in i..(k - 1) : s[m] \in Digits

\* what a search gives when nothing matches
NoDate == [found |-> FALSE, day |-> << >>, month |-> << >>, year |-> << >>, end |-> 0]

\* the match of date_pattern (line 50, IGNORECASE) that starts at i, with the
\* index after it; \b on both sides lets the groups of digits match whole
\* runs of digits only
DateAt(s, i) ==
    IF ~(i <= Len(s) /\ s[i] \in Digits /\ (i = 1 \/ ~IsWord(s[i - 1]))) THEN NoDate
    ELSE LET d == DigitsEnd(s, i)
             m == SkipWhite(s, d)
             y == SkipWhite(s, m + 3)
             e == DigitsEnd(s, y)
         IN  IF /\ d - i <= 2
                /\ m > d
                /\ m + 2 <= Len(s)
                /\ \E k \in 1..12 : Months[k] = Upper(Sub(s, m, m + 2))
                /\ y > m + 3
                /\ y <= Len(s)
                /\ e - y \in 2..4
                /\ (e > Len(s) \/ ~IsWord(s[e]))
             THEN [found |-> TRUE, day |-> Sub(s, i, d - 1), month |-> Sub(s, m, m + 2),
                   year |-> Sub(s, y, e - 1), end |-> e]
             ELSE NoDate

\* the match of \b(\d{1,2})\.(\d{1,2})\.(\d{2,4})\b (line 63) that starts at i
DottedAt(s, i) ==
    IF ~(i <= Len(s) /\ s[i] \in Digits /\ (i = 1 \/ ~IsWord(s[i - 1]))) THEN NoDate
    ELSE LET d == DigitsEnd(s, i)
             m == DigitsEnd(s, d + 1)
             e == DigitsEnd(s, m + 1)
         IN  IF /\ d - i <= 2
                /\ d < Len(s)
                /\ s[d] = "."
                /\ m - (d + 1) \in 1..2
                /\ m < Len(s)
                /\ s[m] = "."
                /\ e - (m + 1) \in 2..4
                /\ (e > Len(s) \/ ~IsWord(s[e]))
             THEN [found |-> TRUE, day |-> Sub(s, i, d - 1), month |-> Sub(s, d + 1, m - 1),
                   year |-> Sub(s, m + 1, e - 1), end |-> e]
             ELSE NoDate

\* re.search(date_pattern, s[from..]) with s[..from-1] still in sight of \b
SearchDate(s, from) ==
    LET hits == {i \in from..Len(s) : s[i] \in Digits /\ DateAt(s, i).found}
    IN  IF hits = {} THEN NoDate ELSE DateAt(s, CHOOSE i \in hits : \A j \in hits : i <= j)

\* line 63
SearchDotted(s) ==
    LET hits == {i \in 1..Len(s) : s[i] \in Digits /\ DottedAt(s, i).found}
    IN  IF hits = {} THEN NoDate ELSE DottedAt(s, CHOOSE i \in hits : \A j \in hits : i <= j)

\* line 71: re.findall gives the matches from left to right, each searched from
\* the end of the one before
RECURSIVE FindAllDates(_, _)
FindAllDates(s, from) ==
    LET m == SearchDate(s, from)
    IN  IF ~m.found THEN << >> ELSE <<m>> \o FindAllDates(s, m.end)

\* RecentDate without the test of line 75: the first date, of whatever year
RecentDate_First(matches, k) == IF k > Len(matches) THEN NoDate ELSE matches[k]

\* lines 72-78: the first of matches[k..] whose year is 2023 or later
RECURSIVE RecentDate(_, _)
RecentDate(matches, k) ==
    IF k > Len(matches) THEN NoDate
    ELSE IF DigitsValue(WithCentury(matches[k].year)) >= 2023 THEN matches[k]
    ELSE RecentDate(matches, k + 1)

SAMPLING == <<"S", "A", "M", "P", "L", "I", "N", "G">>

\* line 53: the index after the first match of
\* Date\s*(?:of\s+Sampling|sampling)?\s*[:\-]? (IGNORECASE) in header, 0 when
\* 'date' occurs nowhere
DateKeywordEnd(header) ==
    LET uh   == Upper(header)
        hits == {k \in 1..Len(uh) : OccursAt(uh, <<"D", "A", "T", "E">>, k)}
    IN  IF hits = {} THEN 0
        ELSE LET k  == CHOOSE i \in hits : \A j \in hits : i <= j
                 p1 == SkipWhite(header, k + 4)
                 q  == SkipWhite(header, p1 + 2)
                 p2 == IF OccursAt(uh, <<"O", "F">>, p1) /\ q > p1 + 2 /\ OccursAt(uh, SAMPLING, q)
                       THEN q + 8
                       ELSE IF OccursAt(uh, SAMPLING, p1) THEN p1 + 8
                       ELSE p1
                 p3 == SkipWhite(header, p2)
             IN  IF p3 <= Len(header) /\ header[p3] \in {":", "-"} THEN p3 + 1 ELSE p3

\* lines 45-79: created_at_val for the text after lines 29-33
HeaderDate(text) ==
    LET header       == Sub(text, 1, IF Len(text) < HeaderLen THEN Len(text) ELSE HeaderLen)
        after        == DateKeywordEnd(header)
        post_keyword == Sub(header, after, Len(header))
        match        == SearchDate(post_keyword, 1)
        match_dot    == SearchDotted(post_keyword)
        recent       == RecentDate(FindAllDates(header, 1), 1)
    IN  IF after # 0 /\ match.found
        THEN parse_date_str(match.day, match.month, match.year)
        ELSE IF after # 0 /\ match_dot.found
        THEN WithCentury(match_dot.year) \o <<"-">> \o zfill2(match_dot.month)
                 \o <<"-">> \o zfill2(match_dot.day) \o TenOClock
        ELSE IF recent.found
        THEN parse_date_str(recent.day, recent.month, recent.year)
        ELSE DefaultDate

(***************************************************************************)
(* The category of a block (lines 109-120)                                 *)
(***************************************************************************)
Categories == {"Port", "Stbd", "No1", "No2", "Default"}

\* the number of tokens looked back from the block's first token (line 110)
LookBack == 500

PORT == <<"P", "O", "R", "T">>

STBD == <<"S", "T", "B", "D">>

STARBOARD == <<"S", "T", "A", "R", "B", "O", "A", "R", "D">>

\* s.split(sep)[-1] for a separator that cannot overlap itself: what follows the
\* last occurrence of sep (all of s when there is none)
LastPiece(s, sep) ==
    LET occ == {i \in 1..(Len(s) - Len(sep) + 1) : OccursAt(s, sep, i)}
    IN  IF occ = {} THEN s
        ELSE LET last == CHOOSE i \in occ : \A j \in occ : j <= i
             IN  Sub(s, last + Len(sep), Len(s))

\* line 110: block_start_idx is the 1-based index of the block's first token
PrecedingText(toks, block_start_idx) ==
    LET lo == IF block_start_idx - LookBack > 1 THEN block_start_idx - LookBack ELSE 1
    IN  Upper(Join(toks, lo, block_start_idx - 1))

\* Classify with the first two branches in the other order: Stbd whenever
\* 'STBD' or 'STARBOARD' occurs
Classify_StbdFirst(preceding_text) ==
    IF Contains(preceding_text, STBD) \/ Contains(preceding_text, STARBOARD)
    THEN "Stbd"
    ELSE IF Contains(preceding_text, PORT) THEN "Port"
    ELSE IF \/ Contains(preceding_text, <<"N", "O", " ", "0", "1">>)
            \/ Contains(preceding_text, <<"N", "O", ".", "0", "1">>)
            \/ Contains(preceding_text, <<"N", "O", ".", " ", "0", "1">>)
    THEN "No1"
    ELSE IF \/ Contains(preceding_text, <<"N", "O", " ", "0", "2">>)
            \/ Contains(preceding_text, <<"N", "O", ".", "0", "2">>)
            \/ Contains(preceding_text, <<"N", "O", ".", " ", "0", "2">>)
    THEN "No2"
    ELSE "Default"

\* lines 112-120
Classify(preceding_text) ==
    IF Contains(preceding_text, PORT) /\ ~Contains(LastPiece(preceding_text, PORT), STBD)
    THEN "Port"
    ELSE IF Contains(preceding_text, STBD) \/ Contains(preceding_text, STARBOARD)
    THEN "Stbd"
    ELSE IF \/ Contains(preceding_text, <<"N", "O", " ", "0", "1">>)
            \/ Contains(preceding_text, <<"N", "O", ".", "0", "1">>)
            \/ Contains(preceding_text, <<"N", "O", ".", " ", "0", "1">>)
    THEN "No1"
    ELSE IF \/ Contains(preceding_text, <<"N", "O", " ", "0", "2">>)
            \/ Contains(preceding_text, <<"N", "O", ".", "0", "2">>)
            \/ Contains(preceding_text, <<"N", "O", ".", " ", "0", "2">>)
    THEN "No2"
    ELSE "Default"

(***************************************************************************)
(* extract_row (lines 132-169)                                             *)
(***************************************************************************)
NumChars == Digits \cup {",", "."}

\* the first index >= j of s that holds no character of [\d,\.]
RECURSIVE NumRunEnd(_, _)
NumRunEnd(s, j) == IF j <= Len(s) /\ s[j] \in NumChars THEN NumRunEnd(s, j + 1) ELSE j

\* [\d,\.]+\*? at j: the index after the match, 0 when it does not match
NumberEnd(s, j) ==
    IF j > Len(s) \/ s[j] \notin NumChars THEN 0
    ELSE LET e == NumRunEnd(s, j)
         IN  IF e <= Len(s) /\ s[e] = "*" THEN e + 1 ELSE e

\* val_pattern at i: the index after the match, 0 when it does not match.  The
\* alternatives are tried in the pattern's order, each quantifier greedy.
ValEnd(s, i) ==
    IF i > Len(s) THEN 0
    ELSE IF s[i] = "<" THEN NumberEnd(s, SkipWhite(s, i + 1))
    ELSE IF OccursAt(s, AmpLt, i) THEN NumberEnd(s, SkipWhite(s, i + 4))
    ELSE IF s[i] \in NumChars THEN NumberEnd(s, i)
    ELSE IF \/ OccursAt(s, <<"N", "/", "A">>, i)
            \/ OccursAt(s, <<"N", "/", "C">>, i)
            \/ OccursAt(s, <<"N", "/", "I">>, i) THEN i + 3
    ELSE IF s[i] = "-" THEN i + 1
    ELSE 0

\* the first index >= i where val_pattern matches, 0 when there is none
RECURSIVE FirstVal(_, _)
FirstVal(s, i) ==
    IF i > Len(s) THEN 0
    ELSE IF ValEnd(s, i) # 0 THEN i
    ELSE FirstVal(s, i + 1)

\* the values of the run (?:\s*(?:val_pattern))+ whose first value starts at i,
\* as re.findall(val_pattern, vals_str) lists them
RECURSIVE RunFrom(_, _)
RunFrom(s, i) ==
    LET e == ValEnd(s, i)
    IN  IF e = 0 THEN << >>
        ELSE <<Sub(s, i, e - 1)>> \o RunFrom(s, SkipWhite(s, e))

\* lines 158-163: the values of the first run of values in post_text (empty when
\* seq_pattern matches nowhere)
ValueRun(post_text) ==
    LET i == FirstVal(post_text, 1)
    IN  IF i = 0 THEN << >> ELSE RunFrom(post_text, i)

\* whether position i of s (between s[i-1] and s[i]) is a \b
WordBoundary(s, i) ==
    (i >= 2 /\ i - 1 <= Len(s) /\ IsWord(s[i - 1])) # (i >= 1 /\ i <= Len(s) /\ IsWord(s[i]))

\* whether \bkeyword\b (IGNORECASE) matches s at i; us is Upper(s), uk Upper(keyword)
KeywordAt(s, us, uk, i) ==
    /\ OccursAt(us, uk, i)
    /\ WordBoundary(s, i)
    /\ WordBoundary(s, i + Len(uk))

\* The positions of s where a word starts, by the upper-cased character there.
\* Every keyword begins with a word character, so \bkeyword (IGNORECASE) can
\* match only at a word start that holds the keyword's first letter.
WordStarts(s, us) ==
    LET ws == {i \in 1..Len(s) : IsWord(s[i]) /\ (i = 1 \/ ~IsWord(s[i - 1]))}
    IN  [c \in {us[i] : i \in ws} |-> {i \in ws : us[i] = c}]

\* lines 149-150: where re.search finds the keyword, 0 when it finds none;
\* us is Upper(s) and ws is WordStarts(s, us)
KeywordSearch(s, us, ws, keyword) ==
    LET uk  == Upper(keyword)
        hit == IF uk[1] \in DOMAIN ws THEN {i \in ws[uk[1]] : KeywordAt(s, us, uk, i)} ELSE {}
    IN  IF hit = {} THEN 0 ELSE CHOOSE i \in hit : \A j \in hit : i <= j

\* [None] * count
Nones(count) == [i \in 1..count |-> Null]

\* LastCount without the slice: every value of the run is returned
LastCount_All(vals, count) == vals

\* LastCount slicing from the wrong end: vals[:count]
LastCount_First(vals, count) ==
    IF count >= Len(vals) THEN vals ELSE SubSeq(vals, 1, count)

\* vals[-count:] for count >= 1
LastCount(vals, count) ==
    IF count >= Len(vals) THEN vals ELSE SubSeq(vals, Len(vals) - count + 1, Len(vals))

\* RowOf accepting a run that is too short: the values found, filled up with
\* None
RowOf_Padded(vals, count) ==
    IF vals = << >> THEN << >>
    ELSE LET last == LastCount(vals, count)
         IN  [i \in 1..count |-> IF i <= Len(last) THEN RawString(last[i]) ELSE Null]

\* lines 166-167: what the loop does with the values found after a keyword:
\* the returned row, or << >> to go on with the next keyword
RowOf(vals, count) ==
    IF Len(vals) >= count
    THEN LET last == LastCount(vals, count)
         IN  [i \in 1..Len(last) |-> RawString(last[i])]
    ELSE << >>

\* lines 147-169: the loop over keywords[k..]; t holds the text, its upper-case
\* form and its word starts
RECURSIVE ExtractFrom(_, _, _, _)
ExtractFrom(keywords, k, count, t) ==
    IF k > Len(keywords) THEN Nones(count)
    ELSE LET at == KeywordSearch(t.text, t.upper, t.starts, keywords[k])
         IN  IF at = 0 THEN ExtractFrom(keywords, k + 1, count, t)
             ELSE LET post_text == Sub(t.text, at + Len(keywords[k]), Len(t.text))
                      row == RowOf(ValueRun(post_text), count)
                  IN  IF row # << >> THEN row
                      ELSE ExtractFrom(keywords, k + 1, count, t)

\* search_text with what the keyword searches need of it
Searchable(text) ==
    LET us == Upper(text)
    IN  [text |-> text, upper |-> us, starts |-> WordStarts(text, us)]

extract_row(keywords, count, t) == ExtractFrom(keywords, 1, count, t)

\* the keyword lists of the sixteen extract_row calls, in call order
Keywords ==
    [oil_hrs |-> << <<"O", "i", "l", " ", "R", "u", "n", "n", "i", "n", "g", " ", "H", "r", "s">>,
                    <<"O", "i", "l", " ", "R", "u", "n", "n", "i", "n", "g", " ", "H", "o", "u", "r", "s">> >>,
     total_hrs |-> << <<"T", "/", "R", "/", "H", " ", "o", "f", " ", "M", "a", "c", "h", "i", "n", "e", "r", "y">>,
                      <<"T", "o", "t", "a", "l", " ", "R", "u", "n", "n", "i", "n", "g", " ", "H", "o", "u", "r", "s">> >>,
     viscosity_40 |-> << <<"V", "i", "s", "c", "o", "s", "i", "t", "y", "@", " ", "4", "0", "o", "C">>,
                         <<"V", "i", "s", "c", "o", "s", "i", "t", "y", " ", "@", " ", "4", "0", "o", "C">>,
                         <<"V", "i", "s", "c", "o", "s", "i", "t", "y", " ", " ", "@", " ", "4", "0", "o", "C">>,
                         <<"V", "i", "V", "i", "s", "c", "o", "s", "i", "t", "y", "@", " ", "4", "0", "o", "C">> >>,
     viscosity_100 |-> << <<"V", "i", "s", "c", "o", "s", "i", "t", "y", "@", " ", "1", "0", "0", "o", "C">>,
                          <<"V", "i", "s", "c", "o", "s", "i", "t", "y", " ", "@", " ", "1", "0", "0", "o", "C">>,
                          <<"V", "i", "s", "c", "o", "s", "i", "t", "y", " ", " ", "@", " ", "1", "0", "0", "o", "C">> >>,
     viscosity_index |-> << <<"V", "i", "s", "c", "o", "s", "i", "t", "y", " ", "I", "n", "d", "e", "x">> >>,
     tbn |-> << <<"T", "o", "t", "a", "l", " ", "B", "a", "s", "e", " ", "N", "o", ".">>,
                <<"T", "B", " ", "N", "o", ".">> >>,
     water_content |-> << <<"W", "a", "t", "e", "r", " ", "c", "o", "n", "t", "e", "n", "t">> >>,
     flash_point |-> << <<"F", "l", "a", "s", "h", " ", "P", "o", "i", "n", "t">> >>,
     fe_ppm |-> << <<"F", "e">>,
                   <<"I", "r", "o", "n">> >>,
     cr_ppm |-> << <<"C", "r">>,
                   <<"C", "h", "r", "o", "m", "i", "u", "m">> >>,
     si_ppm |-> << <<"S", "i">>,
                   <<"S", "i", "l", "i", "c", "o", "n">> >>,
     al_ppm |-> << <<"A", "l">>,
                   <<"A", "l", "u", "m", "i", "n", "u", "m">> >>,
     pb_ppm |-> << <<"P", "b">>,
                   <<"L", "e", "a", "d">> >>,
     cu_ppm |-> << <<"C", "u">>,
                   <<"C", "o", "p", "p", "e", "r">> >>,
     sn_ppm |-> << <<"S", "n">>,
                   <<"T", "i", "n">> >>,
     ni_ppm |-> << <<"N", "i">>,
                   <<"N", "i", "c", "k", "e", "l">> >>]

\* the parameter fields of a record, in the order the rows are extracted
Fields == << "oil_hrs", "total_hrs", "viscosity_40", "viscosity_100",
            "viscosity_index", "tbn", "water_content", "flash_point",
            "fe_ppm", "cr_ppm", "si_ppm", "al_ppm",
            "pb_ppm", "cu_ppm", "sn_ppm", "ni_ppm" >>

(***************************************************************************)
(* Records (lines 191-221)                                                 *)
(***************************************************************************)
\* how line 194-209 store the extracted token of each field
StoreField(field, token) == IF field = "water_content" THEN token ELSE parse_value(token)

\* lines 192-220 for sample i of the block; the constant fields of lines 210-218
\* are the same in every record and left out
MakeRecord(ids, the_rows, i, created) ==
    [f \in {"sample_id", "created_at"} \cup DOMAIN Keywords |->
        IF f = "sample_id" THEN RawString(ids[i])
        ELSE IF f = "created_at" THEN RawString(created)
        ELSE StoreField(f, the_rows[f][i])]

\* lines 173-189
ExtractRows(count, text) ==
    LET t == Searchable(text)
    IN  [f \in DOMAIN Keywords |-> extract_row(Keywords[f], count, t)]

\* the position of category c in the dict (0 when it is no key)
KeyIndex(dict, c) ==
    IF \E k \in 1..Len(dict) : dict[k].category = c
    THEN CHOOSE k \in 1..Len(dict) : dict[k].category = c
    ELSE 0

\* lines 122-123 and 221: the dict with the records appended to its category
AppendRecords(dict, c, recs) ==
    LET k == KeyIndex(dict, c)
    IN  IF k = 0 THEN Append(dict, [category |-> c, records |-> recs])
        ELSE [dict EXCEPT ![k].records = @ \o recs]

(***************************************************************************)
(* process_file (lines 235-266)                                            *)
(***************************************************************************)
\* what output_map.get gives for a category without a file (None)
NoTarget == "None"

\* what files holds for a file that does not exist, and for one that was written
NoFile == [exists |-> FALSE, records |-> << >>]

FileOf(records) == [exists |-> TRUE, records |-> records]

\* TargetFile without the fallback of lines 237-239
TargetFile_NoFallback(map, c) == IF c \in DOMAIN map THEN map[c] ELSE NoTarget

\* lines 236-239
TargetFile(map, c) ==
    IF c \in DOMAIN map THEN map[c]
    ELSE IF "Default" \in DOMAIN map THEN map["Default"]
    ELSE NoTarget

\* Dedup without line 250's overwrite: every record is kept
Dedup_KeepAll(recs, unique) == unique \o recs

\* Dedup keeping the first record of a sample id instead of the last
RECURSIVE Dedup_FirstWins(_, _)
Dedup_FirstWins(recs, unique) ==
    IF recs = << >> THEN unique
    ELSE IF \E k \in 1..Len(unique) : unique[k].sample_id = Head(recs).sample_id
         THEN Dedup_FirstWins(Tail(recs), unique)
         ELSE Dedup_FirstWins(Tail(recs), Append(unique, Head(recs)))

\* lines 246-251: the values of unique_records in the dict's order, which is the
\* order of each sample id's first occurrence
RECURSIVE Dedup(_, _)
Dedup(recs, unique) ==
    IF recs = << >> THEN unique
    ELSE LET rec == Head(recs)
             at  == {k \in 1..Len(unique) : unique[k].sample_id = rec.sample_id}
         IN  IF at = {} THEN Dedup(Tail(recs), Append(unique, rec))
             ELSE Dedup(Tail(recs), [unique EXCEPT ![CHOOSE k \in at : TRUE] = rec])

\* lines 254-258
get_sort_key(x) == IF x.total_hrs.kind = "Number" THEN x.total_hrs ELSE Number(0, 0)

\* a <= b for two floats that are not nan
NumLeq(a, b) == a.mant * Pow10(b.exp) <= b.mant * Pow10(a.exp)

\* line 259: list.sort is stable; it puts each record behind the records
\* before it whose key is not greater
RECURSIVE SortRecords(_, _)
SortRecords(recs, sorted) ==
    IF recs = << >> THEN sorted
    ELSE LET rec == Head(recs)
             n   == Cardinality({k \in 1..Len(sorted) :
                                    NumLeq(get_sort_key(sorted[k]), get_sort_key(rec))})
         IN  SortRecords(Tail(recs),
                         Sub(sorted, 1, n) \o <<rec>> \o Sub(sorted, n + 1, Len(sorted)))

\* AssignIds with rec['id'] = i, the ids starting at 0
AssignIds_FromZero(recs) ==
    [i \in 1..Len(recs) |->
        [f \in DOMAIN recs[i] \cup {"id"} |-> IF f = "id" THEN i - 1 ELSE recs[i][f]]]

\* lines 260-261
AssignIds(recs) ==
    [i \in 1..Len(recs) |->
        [f \in DOMAIN recs[i] \cup {"id"} |-> IF f = "id" THEN i ELSE recs[i][f]]]

\* OutputArray sorting the records before the duplicates are removed
OutputArray_SortFirst(recs) == AssignIds(Dedup(SortRecords(recs, << >>), << >>))

\* lines 246-261: the array json.dump writes
OutputArray(recs) == AssignIds(SortRecords(Dedup(recs, << >>), << >>))

(***************************************************************************)
(* Specification of parse_value alone: every short string over the         *)
(* characters the value pattern and the placeholders are made of, bare or  *)
(* wrapped in white space or prefixed by '&lt;', None, and the spec's      *)
(* examples.                                                               *)
(***************************************************************************)
MaxValLen == 3

ValAlphabet == {"N", "/", "A", "n", "a", "-", "<", "0", "5", ",", ".", "*", " "}

ValExamples == { <<"1", ",", "2", "3", "4", ".", "5">>, <<"<", "5", ".", "0", "0">>,
                 <<"1", ".", "2", ".", "3">>, <<"N", "/", "C">>, <<"n", "/", "i">>,
                 <<" ", "N", "/", "A", " ">>, <<"\t", "5", "*", "\n">> }

ValCores == UNION {[1..k -> ValAlphabet] : k \in 0..MaxValLen}

ValInputs ==
    {Null} \cup {RawString(s) : s \in ValExamples}
           \cup {RawString(pre \o core \o suf) :
                    pre \in {<< >>, <<" ">>, AmpLt}, core \in ValCores,
                    suf \in {<< >>, <<" ">>}}

NotCalled == [kind |-> "NotCalled", str |-> << >>, mant |-> 0, exp |-> 0, nan |-> FALSE]

\* the output files of the maps below
Files == {"port.json", "stbd.json", "default.json"}

\* the pipeline's variables before process_file runs
PipelineReset ==
    /\ created_at_val = << >>
    /\ tokens = << >>
    /\ blocks = << >>
    /\ bi = 0
    /\ category = "Default"
    /\ sample_ids = << >>
    /\ search_text = << >>
    /\ rows = << >>
    /\ categorized_records = << >>
    /\ ci = 0
    /\ files = [f \in Files |-> NoFile]
    /\ written = << >>

\* what is not loaded, parsed or computed yet in predict.py
Unset == [kind |-> "Unset"]

\* the exit status of a process that has not exited
Running == -1

\* the variables of predict.py while the parser is exercised
ShimIdle ==
    /\ stdin = Unset
    /\ input_data = Unset
    /\ model_file = Unset
    /\ model = Unset
    /\ predict_calls = << >>
    /\ result = Unset
    /\ stdout = << >>
    /\ exit_code = Running

\* the pipeline's variables while only parse_value is exercised
PipelineIdle ==
    /\ content = << >>
    /\ output_map = << >>
    /\ PipelineReset

InitValue ==
    /\ val \in ValInputs
    /\ ret = NotCalled
    /\ pc = "call"
    /\ PipelineIdle
    /\ ShimIdle

CallParseValue ==
    /\ pc = "call"
    /\ ret' = parse_value(val)
    /\ pc' = "returned"
    /\ UNCHANGED <<val, content, output_map, created_at_val, tokens, blocks, bi, category, sample_ids,
                   search_text, rows, categorized_records, ci, files, written, shim>>

NextValue == CallParseValue

SpecValue == InitValue /\ [][NextValue]_vars

(***************************************************************************)
(* process_file(txt_file, output_map), step by step                        *)
(***************************************************************************)
\* lines 25-102 (the header date of lines 36-81 aside) and, when no sample id
\* is found, the return of lines 88-90
ParseTextFile ==
    /\ pc = "start"
    /\ LET toks == Split(Normalize(content))
           si   == SampleIndices(toks)
       IN  /\ created_at_val' = HeaderDate(Normalize(content))
           /\ tokens' = toks
           /\ blocks' = GroupBlocks(si)
           /\ pc' = IF si = << >> THEN "parsed" ELSE "blocks"
    /\ UNCHANGED <<val, ret, content, output_map, bi, category, sample_ids, search_text,
                   rows, categorized_records, ci, files, written, shim>>

\* one iteration of the loop of line 106
ParseBlock ==
    /\ pc = "blocks"
    /\ bi < Len(blocks)
    /\ LET block_indices   == blocks[bi + 1]
           block_start_idx == block_indices[1]
           cat   == Classify(PrecedingText(tokens, block_start_idx))
           ids   == [i \in 1..Len(block_indices) |-> tokens[block_indices[i]]]
           text  == Join(tokens, block_indices[Len(block_indices)] + 1, Len(tokens))
           count == Len(ids)
           rs    == ExtractRows(count, text)
           recs  == [i \in 1..count |-> MakeRecord(ids, rs, i, created_at_val)]
       IN  /\ category' = cat
           /\ sample_ids' = ids
           /\ search_text' = text
           /\ rows' = rs
           /\ categorized_records' = AppendRecords(categorized_records, cat, recs)
    /\ bi' = bi + 1
    /\ pc' = IF bi + 1 = Len(blocks) THEN "parsed" ELSE "blocks"
    /\ UNCHANGED <<val, ret, content, output_map, created_at_val, tokens, blocks, ci, files, written, shim>>

\* one iteration of the loop of line 235
ProcessCategory ==
    /\ pc = "parsed"
    /\ ci < Len(categorized_records)
    /\ LET entry       == categorized_records[ci + 1]
           target_file == TargetFile(output_map, entry.category)
           records     == OutputArray(entry.records)
       IN  IF target_file # NoTarget
           THEN /\ files' = [files EXCEPT ![target_file] = FileOf(records)]
                /\ written' = Append(written, [category |-> entry.category,
                                               target_file |-> target_file,
                                               records |-> records])
           ELSE UNCHANGED <<files, written>>
    /\ ci' = ci + 1
    /\ UNCHANGED <<val, ret, content, output_map, pc, created_at_val, tokens, blocks, bi, category,
                   sample_ids, search_text, rows, categorized_records, shim>>

\* Return leaving an empty array in every file when nothing was parsed
Return_EmptyArrays ==
    /\ pc = "parsed"
    /\ ci = Len(categorized_records)
    /\ pc' = "done"
    /\ files' = IF categorized_records = << >> THEN [f \in Files |-> FileOf(<< >>)] ELSE files
    /\ UNCHANGED <<val, ret, content, output_map, created_at_val, tokens, blocks, bi, category,
                   sample_ids, search_text, rows, categorized_records, ci, written, shim>>

\* the return of process_file: line 231 when nothing was parsed, else the end
\* of the loop of line 235
Return ==
    /\ pc = "parsed"
    /\ ci = Len(categorized_records)
    /\ pc' = "done"
    /\ UNCHANGED <<val, ret, content, output_map, created_at_val, tokens, blocks, bi, category, sample_ids,
                   search_text, rows, categorized_records, ci, files, written, shim>>

Next == ParseTextFile \/ ParseBlock \/ ProcessCategory \/ Return

(***************************************************************************)
(* Input documents                                                         *)
(***************************************************************************)
\* the shapes of output map of lines 233 and 273-300
MapDefault == [Default |-> "default.json"]

MapSides == [Port |-> "port.json", Stbd |-> "stbd.json"]

MapAll == [Port |-> "port.json", Stbd |-> "stbd.json", Default |-> "default.json"]

OutputMaps == {MapDefault, MapSides, MapAll}

DigitChars == <<"1", "2", "3", "4", "5", "6", "7", "8", "9">>

\* the sample ids S/I-M1, S/I-M2, ...
IdM(i) == <<"S", "/", "I", "-", "M", DigitChars[i]>>

TotalHours == << <<"T", "o", "t", "a", "l">>, <<"R", "u", "n", "n", "i", "n", "g">>,
                 <<"H", "o", "u", "r", "s">> >>

\* the text of a file holding the tokens toks, one space between them
TextOf(toks) == Join(toks, 1, Len(toks))

\* Documents of up to MaxSamples samples.  Each sample has an id and a total
\* running hours token; a sample either continues the block of the sample
\* before it or opens a new block, which a PORT or STBD heading may precede.
\* Each block is followed by its row of total running hours.
MaxSamples == 3

SampleChoices ==
    { [id |-> IdM(1), hrs |-> <<"5">>], [id |-> IdM(1), hrs |-> <<"N", "/", "A">>],
      [id |-> IdM(2), hrs |-> <<"3">>], [id |-> IdM(3), hrs |-> <<"7", "*">>] }

GapKinds == {"same", "stbd"}

RECURSIVE HoursRow(_, _, _)
HoursRow(samples, a, b) ==
    IF a > b THEN << >> ELSE <<samples[a].hrs>> \o HoursRow(samples, a + 1, b)

RECURSIVE IdsOf(_, _, _)
IdsOf(samples, a, b) ==
    IF a > b THEN << >> ELSE <<samples[a].id>> \o IdsOf(samples, a + 1, b)

\* the tokens of samples a..n, a being the first sample of a block
RECURSIVE DocFrom(_, _, _)
DocFrom(samples, gaps, a) ==
    IF a > Len(samples) THEN << >>
    ELSE LET later == {k \in (a + 1)..Len(samples) : gaps[k] # "same"}
             b     == IF later = {} THEN Len(samples)
                      ELSE (CHOOSE k \in later : \A j \in later : k <= j) - 1
             head  == IF gaps[a] = "stbd" THEN <<STBD>>
                      ELSE IF gaps[a] = "port" THEN <<PORT>> ELSE << >>
         IN  head \o IdsOf(samples, a, b) \o TotalHours \o HoursRow(samples, a, b)
                  \o DocFrom(samples, gaps, b + 1)

DocumentsOf(n) ==
    { TextOf(DocFrom(samples, gaps, 1)) :
        samples \in [1..n -> SampleChoices], gaps \in [1..n -> GapKinds] }

Init ==
    /\ val = Null
    /\ ret = NotCalled
    /\ \/ content \in DocumentsOf(MaxSamples) /\ output_map = MapSides
       \/ content \in UNION {DocumentsOf(n) : n \in 0..(MaxSamples - 1)} /\ output_map \in OutputMaps
    /\ pc = "start"
    /\ PipelineReset
    /\ ShimIdle

Spec == Init /\ [][Next]_vars

(***************************************************************************)
(* Documents for the row extractor: one block of 1..MaxCount sample ids,   *)
(* followed by a keyword ('Fe' or 'Water content') and up to MaxVals       *)
(* tokens, and, after 'Fe', possibly by its synonym 'Iron' and values.     *)
(***************************************************************************)
MaxCount == 2

MaxVals == 3

\* value-shaped tokens, a '<' standing apart from its number, and a unit
RowTokens == { <<"5">>, <<"<">>, <<"N", "/", "A">>, <<"7", "*">>, <<"m", "2">> }

RowTails == UNION {[1..k -> RowTokens] : k \in 0..MaxVals}

FeWord == <<"F", "e">>

IronWord == <<"I", "r", "o", "n">>

WaterWords == << <<"W", "a", "t", "e", "r">>, <<"c", "o", "n", "t", "e", "n", "t">> >>

IronParts == { << >>, <<IronWord>>, <<IronWord, <<"8">> >>, <<IronWord, <<"8">>, <<"9">> >> }

\* texts in which \b decides, or the run of values starts inside a token
RowExamples ==
    { << <<"T", "B">>, <<"N", "o", ".">>, <<"5">> >>,
      << <<"T", "B">>, <<"N", "o", ".", "5">> >>,
      << <<"F", "e", "2">>, <<"5">> >>,
      << <<"(", "F", "e", ")">>, <<"&", "l", "t", ";", "5">> >>,
      << <<"f", "e">>, <<"n", "/", "a">>, <<"5">> >>,
      << <<"F", "e">>, <<"-">>, <<"N", "/", "C">>, <<"N", "/", "I">>, <<"1", ",", "2", ".", "5">> >> }

RowFollowers ==
    {<< >>} \cup RowExamples
            \cup {<<FeWord>> \o tail \o iron : tail \in RowTails, iron \in IronParts}
            \cup {WaterWords \o tail : tail \in RowTails}

RowDocuments ==
    { TextOf([i \in 1..count |-> IdM(i)] \o follow) :
        count \in 0..MaxCount, follow \in RowFollowers }

InitRow ==
    /\ val = Null
    /\ ret = NotCalled
    /\ content \in RowDocuments
    /\ output_map = MapAll
    /\ pc = "start"
    /\ PipelineReset
    /\ ShimIdle

SpecRow == InitRow /\ [][Next]_vars

(***************************************************************************)
(* Documents for the classifier: up to MaxPre heading tokens, one sample   *)
(* id, and possibly a heading after it; and documents in which LookBack    *)
(* or about as many filler tokens stand between a heading and the block.   *)
(***************************************************************************)
MaxPre == 3

HeadingTokens ==
    { PORT, STBD, STARBOARD, <<"N", "O">>, <<"0", "1">>, <<"N", "O", ".", "0", "2">>,
      <<"R", "e", "p", "o", "r", "t">>, <<"x">> }

Headings(n) == UNION {[1..k -> HeadingTokens] : k \in 0..n}

Filler(n) == [i \in 1..n |-> <<"x">>]

ShortClassDocuments ==
    { TextOf(pre \o <<IdM(1)>>) : pre \in Headings(MaxPre) }
        \cup { TextOf(pre \o <<IdM(1), PORT>>) : pre \in Headings(MaxPre - 1) }

LongClassDocuments ==
    { TextOf(<<far>> \o Filler(n) \o near \o <<IdM(1)>>) :
        far \in HeadingTokens, n \in (LookBack - 2)..LookBack, near \in Headings(1) }

InitClass ==
    /\ val = Null
    /\ ret = NotCalled
    /\ content \in ShortClassDocuments \cup LongClassDocuments
    /\ output_map = MapAll
    /\ pc = "start"
    /\ PipelineReset
    /\ ShimIdle

SpecClass == InitClass /\ [][Next]_vars

(***************************************************************************)
(* Documents for the header date: up to MaxDates date texts, a date label  *)
(* before, between or after them (or none), and two blocks of one sample   *)
(* id; and documents in which a date stands at the end of the header,      *)
(* inside it, across its end or after it.                                  *)
(***************************************************************************)
MaxDates == 2

DateTexts ==
    { << <<"1", "1">>, <<"J", "u", "l">>, <<"2", "5">> >>,
      << <<"1">>, <<"a", "u", "g">>, <<"2", "0", "2", "4">> >>,
      << <<"1", "1">>, <<"J", "u", "l">>, <<"2", "0", "2">> >>,
      << <<"3">>, <<"D", "E", "C">>, <<"2", "2">> >>,
      << <<"1", ".", "7", ".", "2", "5">> >>,
      << <<"1", "1", ".", "0", "7", ".", "2", "0", "2">> >>,
      << <<"1", "1">>, <<"J", "u", "l", "y">>, <<"2", "5">> >> }

DateLabels ==
    { << <<"D", "a", "t", "e", ":">> >>,
      << <<"D", "a", "t", "e">>, <<"o", "f">>, <<"S", "a", "m", "p", "l", "i", "n", "g", ":">> >>,
      << <<"U", "p", "d", "a", "t", "e">> >> }

\* the tokens of the date texts ds[a..b]
RECURSIVE DatesOf(_, _, _)
DatesOf(ds, a, b) == IF a > b THEN << >> ELSE ds[a] \o DatesOf(ds, a + 1, b)

TwoBlocks == <<IdM(1)>> \o TotalHours \o <<IdM(2)>>

ShortDateDocuments ==
    LET dates == UNION {[1..n -> DateTexts] : n \in 0..MaxDates}
    IN  { TextOf(DatesOf(ds, 1, Len(ds)) \o TwoBlocks) : ds \in dates }
            \cup { TextOf(DatesOf(ds[1], 1, ds[2]) \o ds[3]
                              \o DatesOf(ds[1], ds[2] + 1, Len(ds[1])) \o TwoBlocks) :
                       ds \in { x \in dates \X (0..MaxDates) \X DateLabels : x[2] <= Len(x[1]) } }

\* a label glued to the day, and the example of the specification
DateExamples ==
    { TextOf(<< <<"D", "a", "t", "e", "1", "1">>, <<"J", "u", "l">>, <<"2", "5">> >> \o TwoBlocks),
      TextOf(<< <<"D", "a", "t", "e">>, <<"o", "f">>,
                <<"S", "a", "m", "p", "l", "i", "n", "g", ":">>,
                <<"1", "1">>, <<"J", "u", "l">>, <<"2", "5">> >> \o TwoBlocks) }

LongDateDocuments ==
    { TextOf(lead \o Filler(n) \o label \o date \o TwoBlocks) :
        lead \in {<< >>, << <<"x", "x">> >>},
        n \in ((HeaderLen \div 2) - 10)..(HeaderLen \div 2),
        label \in {<< >>, << <<"D", "a", "t", "e", ":">> >>},
        date \in { << <<"1", "1">>, <<"J", "u", "l">>, <<"2", "0", "2", "5">> >>,
                   << <<"1", "1", ".", "0", "7", ".", "2", "0", "2", "5">> >> } }

InitDate ==
    /\ val = Null
    /\ ret = NotCalled
    /\ content \in ShortDateDocuments \cup DateExamples \cup LongDateDocuments
    /\ output_map = MapAll
    /\ pc = "start"
    /\ PipelineReset
    /\ ShimIdle

SpecDate == InitDate /\ [][Next]_vars

(***************************************************************************)
(* lib/python/predict.py: the prediction shim                              *)
(*                                                                         *)
(* main reads one JSON document from standard input, loads the pickled     *)
(* model, calls predict and prints one JSON object.  Scores are counted in *)
(* tenths, so that the range 0.0 .. 1.0 of np.clip is 0 .. 10.             *)
(***************************************************************************)

\* the keys predict reads, in the order it reads them (lines 39-44)
FeatureKeys ==
    <<"oil_hrs", "total_hrs", "viscosity_40", "oil_refill_start", "oil_topup",
      "health_score_lag_1">>

\* the largest number of keys an input object leaves out
MaxMissing == 2

\* the values of health_score_lag_1 in the inputs, in tenths
LagValues == {0, 5}

\* the raw predictions of the models, in tenths: below, inside and above the range
RawPredictions == {-5, 3, 15}

\* Python's None
None == [kind |-> "None"]

\* the JSON documents on standard input: bytes the strict text layer of stdin
\* rejects, text that is not JSON, a JSON array, and JSON objects with some
\* of the keys
StdinChoices ==
    { [kind |-> "undecodable"], [kind |-> "invalid"], [kind |-> "array"] } \cup
    { [kind |-> "object", keys |-> ks, lag |-> l] :
        ks \in { k \in SUBSET { FeatureKeys[i] : i \in 1..Len(FeatureKeys) } :
                   Cardinality(k) >= Len(FeatureKeys) - MaxMissing },
        l \in LagValues }

\* what MODEL_PATH holds: nothing, bytes that are no pickle, a pickled None,
\* a pickled model that predicts a score, a pickled model whose predict raises
ModelFiles ==
    { [kind |-> "missing"], [kind |-> "corrupt"], [kind |-> "pickle", obj |-> None] } \cup
    { [kind |-> "pickle", obj |-> [kind |-> "Model", raises |-> FALSE, raw |-> r]] :
        r \in RawPredictions } \cup
    { [kind |-> "pickle", obj |-> [kind |-> "Model", raises |-> TRUE, raw |-> 0]] }

\* str(e) of the exceptions the shim meets
NoSuchFile == "[Errno 2] No such file or directory"
BadPickle == "invalid load key"
NoPredict == "'tuple' object has no attribute 'predict'"
BadIndex == "list indices must be integers or slices, not str"
BadJson == "Expecting value: line 1 column 1 (char 0)"
BadBytes == "'utf-8' codec can't decode byte 0xff in position 0: invalid start byte"
ModelError == "feature shape mismatch"

\* the message of a KeyError is the repr of the key
KeyErrorOf(key) == "'" \o key \o "'"

\* sys.stdin.read() (line 75): the text, or the UnicodeDecodeError
stdin_read(in) ==
    IF in.kind = "undecodable"
        THEN [raised |-> "UnicodeDecodeError", msg |-> BadBytes]
        ELSE [raised |-> "", text |-> in]

\* json.loads(input_line) (line 76): the value, or the JSONDecodeError
json_loads(text) ==
    CASE text.kind = "invalid" -> [raised |-> "JSONDecodeError", msg |-> BadJson]
      [] text.kind = "array" -> [raised |-> "", value |-> [kind |-> "list"]]
      [] text.kind = "object" ->
            [raised |-> "", value |-> [kind |-> "dict", keys |-> text.keys, lag |-> text.lag]]

\* load_model() (lines 25-32): the unpickled object, or on any exception the
\* pair (None, str(e))
load_model(file) ==
    CASE file.kind = "pickle" -> file.obj
      [] file.kind = "missing" -> [kind |-> "Tuple", first |-> None, second |-> NoSuchFile]
      [] file.kind = "corrupt" -> [kind |-> "Tuple", first |-> None, second |-> BadPickle]

\* model is None (line 80)
IsNone(m) == m.kind = "None"

\* np.clip(x, lo, hi) (line 51)
clip(x, lo, hi) == IF x < lo THEN lo ELSE IF x > hi THEN hi ELSE x

\* the first key of lines 39-44 that input_data lacks, 0 when it has them all
FirstMissing(data) ==
    LET missing == { i \in 1..Len(FeatureKeys) : FeatureKeys[i] \notin data.keys }
    IN IF missing = {} THEN 0 ELSE CHOOSE i \in missing : \A j \in missing : i <= j

\* the dictionary of lines 66-69
Failure(msg) == [success |-> FALSE, error |-> msg]

\* predict(model, input_data) (lines 34-69): the features are read first,
\* then model.predict is called, and every exception becomes a failure
predict(m, data) ==
    IF data.kind # "dict" THEN Failure(BadIndex)
    ELSE IF FirstMissing(data) # 0 THEN Failure(KeyErrorOf(FeatureKeys[FirstMissing(data)]))
    ELSE IF m.kind # "Model" THEN Failure(NoPredict)
    ELSE IF m.raises THEN Failure(ModelError)
    ELSE [success |-> TRUE,
          raw_health_score |-> clip(m.raw, 0, 10),
          confidence |-> IF data.lag = 0 THEN "medium" ELSE "high",
          model_version |-> "XGBoost_v1.0",
          features_used |-> "FEATURE_COLUMNS"]

InitPredict ==
    /\ val = Null
    /\ ret = NotCalled
    /\ pc = "main"
    /\ PipelineIdle
    /\ stdin \in StdinChoices
    /\ input_data = Unset
    /\ model_file \in ModelFiles
    /\ model = Unset
    /\ predict_calls = << >>
    /\ result = Unset
    /\ stdout = << >>
    /\ exit_code = Running

\* the variables of the parser
pipeline ==
    <<val, ret, content, output_map, created_at_val, tokens, blocks, bi, category,
      sample_ids, search_text, rows, categorized_records, ci, files, written>>

\* lines 75-76, with the handlers of lines 93-109 for what they raise
ReadInput ==
    /\ pc = "main"
    /\ LET read == stdin_read(stdin)
           loaded == json_loads(read.text)
       IN IF read.raised # ""
              THEN /\ stdout' = Append(stdout, Failure("Prediction failed: " \o read.msg))
                   /\ exit_code' = 1
                   /\ pc' = "exit"
                   /\ UNCHANGED input_data
          ELSE IF loaded.raised # ""
              THEN /\ stdout' = Append(stdout, Failure("Invalid JSON input: " \o loaded.msg))
                   /\ exit_code' = 1
                   /\ pc' = "exit"
                   /\ UNCHANGED input_data
          ELSE /\ input_data' = loaded.value
               /\ pc' = "load"
               /\ UNCHANGED <<stdout, exit_code>>
    /\ UNCHANGED <<stdin, model_file, model, predict_calls, result, pipeline>>

\* line 79
LoadModel ==
    /\ pc = "load"
    /\ model' = load_model(model_file)
    /\ pc' = "loaded"
    /\ UNCHANGED <<stdin, input_data, model_file, predict_calls, result, stdout,
                   exit_code, pipeline>>

\* lines 80-84
ModelIsNone ==
    /\ pc = "loaded"
    /\ IsNone(model)
    /\ result' = Failure("Failed to load ML model")
    /\ pc' = "print"
    /\ UNCHANGED <<stdin, input_data, model_file, model, predict_calls, stdout,
                   exit_code, pipeline>>

\* lines 85-87
CallPredict ==
    /\ pc = "loaded"
    /\ ~IsNone(model)
    /\ predict_calls' = Append(predict_calls, model)
    /\ result' = predict(model, input_data)
    /\ pc' = "print"
    /\ UNCHANGED <<stdin, input_data, model_file, model, stdout, exit_code, pipeline>>

\* lines 90-91, and the return of main
PrintResult ==
    /\ pc = "print"
    /\ stdout' = Append(stdout, result)
    /\ exit_code' = 0
    /\ pc' = "exit"
    /\ UNCHANGED <<stdin, input_data, model_file, model, predict_calls, result,
                   pipeline>>

NextPredict == ReadInput \/ LoadModel \/ ModelIsNone \/ CallPredict \/ PrintResult

SpecPredict == InitPredict /\ [][NextPredict]_vars

(***************************************************************************)
(* What the claims speak of                                                *)
(***************************************************************************)
\* the category of block b, from the tokens before it
BlockCategory(b) == Classify(PrecedingText(tokens, blocks[b][1]))

\* the distinct sample-identifier tokens of the blocks classified into c
IdsIn(c) ==
    { tokens[blocks[b][i]] : <<b, i>> \in
        { x \in (1..Len(blocks)) \X (1..Len(tokens)) :
            x[2] <= Len(blocks[x[1]]) /\ BlockCategory(x[1]) = c } }

\* the records parse_text_file collected for category c, in document order
ParsedFor(c) ==
    IF KeyIndex(categorized_records, c) = 0 THEN << >>
    ELSE categorized_records[KeyIndex(categorized_records, c)].records

\* the writes of process_file for category c
WritesFor(c) == {k \in 1..Len(written) : written[k].category = c}

\* whether the output map gives category c a file, its own or the Default one
Mapped(c) == c \in DOMAIN output_map \/ "Default" \in DOMAIN output_map

\* the sort key the claims give a record: total_hrs when a number, else 0
KeyIsNumber(r) == r.total_hrs.kind = "Number"

KeyLeq(r1, r2) ==
    LET m1 == IF KeyIsNumber(r1) THEN r1.total_hrs.mant ELSE 0
        e1 == IF KeyIsNumber(r1) THEN r1.total_hrs.exp ELSE 0
        m2 == IF KeyIsNumber(r2) THEN r2.total_hrs.mant ELSE 0
        e2 == IF KeyIsNumber(r2) THEN r2.total_hrs.exp ELSE 0
    IN  m1 * Pow10(e2) <= m2 * Pow10(e1)

(***************************************************************************)
(* C1: in every array process_file writes, and in every output file, the   *)
(* ids read in array order are 1, 2, ..., n.                               *)
(***************************************************************************)
C1_IdsCountFromOne ==
    /\ \A k \in 1..Len(written) :
          \A i \in 1..Len(written[k].records) : written[k].records[i].id = i
    /\ \A f \in Files :
          \A i \in 1..Len(files[f].records) : files[f].records[i].id = i

\* an array of three records was written whose order is not the order in
\* which the records were parsed
C1_Witness ==
    \E k \in 1..Len(written) :
        /\ Len(written[k].records) >= 3
        /\ written[k].records[1].sample_id # ParsedFor(written[k].category)[1].sample_id
        /\ written[k].records[3].id = 3

(***************************************************************************)
(* C2, as stated: when process_file has returned, the number of records    *)
(* emitted for every category equals the number of distinct sample         *)
(* identifiers of the blocks classified into it.                           *)
(***************************************************************************)
C2_EveryCategoryEmitted ==
    pc = "done" =>
        \A c \in Categories :
            /\ Cardinality(WritesFor(c)) <= 1
            /\ Cardinality(IdsIn(c)) =
                  (IF WritesFor(c) = {} THEN 0
                   ELSE Len(written[CHOOSE k \in WritesFor(c) : TRUE].records))

(***************************************************************************)
(* C2, amended: every array written for a category holds as many records   *)
(* as there are distinct sample identifiers in the blocks classified into  *)
(* the category; a category of the document is written once when the map   *)
(* gives it a file (its own or the Default one) and not at all otherwise.  *)
(***************************************************************************)
C2_MappedCategoryEmitted ==
    /\ \A k \in 1..Len(written) :
          Len(written[k].records) = Cardinality(IdsIn(written[k].category))
    /\ pc = "done" =>
          \A c \in Categories :
              Cardinality(WritesFor(c)) = (IF IdsIn(c) # {} /\ Mapped(c) THEN 1 ELSE 0)

\* a category with a repeated identifier was written, and another category
\* of the same document had no file and was dropped
C2_Witness ==
    /\ pc = "done"
    /\ \E k \in 1..Len(written) :
          Len(written[k].records) < Len(ParsedFor(written[k].category))
    /\ \E c \in Categories : IdsIn(c) # {} /\ ~Mapped(c) /\ WritesFor(c) = {}

(***************************************************************************)
(* C3: every sample identifier parsed in a category has exactly one record *)
(* in the array written for the category, and that record carries the      *)
(* values of the identifier's last occurrence in document order.           *)
(***************************************************************************)
C3_LastWriteWins ==
    \A k \in 1..Len(written) :
        LET parsed == ParsedFor(written[k].category)
            out    == written[k].records
        IN  \A j \in 1..Len(parsed) :
                LET same == {i \in 1..Len(parsed) : parsed[i].sample_id = parsed[j].sample_id}
                    last == CHOOSE i \in same : \A h \in same : h <= i
                    hits == {i \in 1..Len(out) : out[i].sample_id = parsed[j].sample_id}
                IN  /\ Cardinality(hits) = 1
                    /\ \A i \in hits : \A f \in DOMAIN parsed[last] : out[i][f] = parsed[last][f]

\* an identifier occurred twice in a category with different values, and the
\* written record has the later ones
C3_Witness ==
    \E k \in 1..Len(written) :
        LET parsed == ParsedFor(written[k].category)
            out    == written[k].records
        IN  \E a, b \in 1..Len(parsed) :
                /\ a < b
                /\ parsed[a].sample_id = parsed[b].sample_id
                /\ parsed[a].total_hrs # parsed[b].total_hrs
                /\ \E i \in 1..Len(out) :
                      /\ out[i].sample_id = parsed[b].sample_id
                      /\ out[i].total_hrs = parsed[b].total_hrs

(***************************************************************************)
(* C4: every written array is in ascending order of sort key (total_hrs    *)
(* when a number, 0 when null or a string) and of id.                      *)
(***************************************************************************)
C4_SortedByHours ==
    \A k \in 1..Len(written) :
        LET out == written[k].records
        IN  \A i, j \in 1..Len(out) :
                i < j => KeyLeq(out[i], out[j]) /\ out[i].id < out[j].id

\* a written array holds a null and a string total_hrs before a number that
\* was parsed before the string
C4_Witness ==
    \E k \in 1..Len(written) :
        LET parsed == ParsedFor(written[k].category)
            out    == written[k].records
        IN  /\ Len(out) = 3
            /\ out[1].total_hrs.kind = "Null"
            /\ out[2].total_hrs.kind = "RawString"
            /\ out[3].total_hrs.kind = "Number"
            /\ \E a, b \in 1..Len(parsed) :
                  /\ a < b
                  /\ parsed[a].sample_id = out[3].sample_id
                  /\ parsed[b].sample_id = out[2].sample_id

(***************************************************************************)
(* The last parsed block: its keyword matches and value runs               *)
(***************************************************************************)
\* where keyword k of field f matches in the text t stands for (0 when
\* nowhere); t is Searchable(search_text)
FoundAt(t, f, k) == KeywordSearch(t.text, t.upper, t.starts, Keywords[f][k])

\* the keywords of field f that match
Matching(t, f) == {k \in 1..Len(Keywords[f]) : FoundAt(t, f, k) # 0}

\* the first keyword of field f's list that matches
FirstMatching(t, f) ==
    LET m == Matching(t, f)
    IN  CHOOSE k \in m : \A j \in m : k <= j

\* the value tokens of the first run of values after the match of keyword k
RunAfter(t, f, k) ==
    ValueRun(Sub(t.text, FoundAt(t, f, k) + Len(Keywords[f][k]), Len(t.text)))

\* the records of the last parsed block: the last ones of its category
BlockRecords ==
    LET recs == ParsedFor(category)
        n    == Len(sample_ids)
    IN  IF Len(recs) < n THEN << >> ELSE SubSeq(recs, Len(recs) - n + 1, Len(recs))

\* how many sample identifiers the blocks parsed so far hold, and how many
\* records were collected from them
IdsParsed ==
    Cardinality({x \in (1..bi) \X (1..Len(tokens)) : x[2] <= Len(blocks[x[1]])})

RecordsParsed ==
    Cardinality({x \in (1..Len(categorized_records)) \X (1..Len(tokens)) :
                    x[2] <= Len(categorized_records[x[1]].records)})

(***************************************************************************)
(* C5: every row extracted for a block has as many entries as the block    *)
(* has sample identifiers, and the block yields one record per identifier, *)
(* in the block's identifier order.                                        *)
(***************************************************************************)
C5_RowLengthIsCount ==
    bi >= 1 =>
        /\ \A f \in DOMAIN Keywords :
              DOMAIN rows[f] = 1..Len(sample_ids)
        /\ Len(BlockRecords) = Len(sample_ids)
        /\ \A i \in 1..Len(sample_ids) :
              BlockRecords[i].sample_id = RawString(sample_ids[i])
        /\ RecordsParsed = IdsParsed

\* a block of two identifiers with a run of three values after 'Fe', a run of
\* one value after 'Iron', and parameters whose keyword is absent
C5_Witness ==
    LET t == Searchable(search_text)
    IN  /\ bi >= 1
        /\ Len(sample_ids) = 2
        /\ Matching(t, "fe_ppm") = {1, 2}
        /\ Len(RunAfter(t, "fe_ppm", 1)) = 3
        /\ Len(RunAfter(t, "fe_ppm", 2)) = 1
        /\ Matching(t, "tbn") = {}
        /\ Len(rows.fe_ppm) = 2

(***************************************************************************)
(* C6, as stated: when the first keyword of a parameter that matches is    *)
(* followed by a run of fewer than count values, the row is count nulls.   *)
(***************************************************************************)
C6_FirstMatchDecides ==
    bi >= 1 =>
        LET t == Searchable(search_text)
        IN  \A f \in DOMAIN Keywords :
                (/\ Matching(t, f) # {}
                 /\ Len(RunAfter(t, f, FirstMatching(t, f))) < Len(sample_ids))
                    => rows[f] = Nones(Len(sample_ids))

(***************************************************************************)
(* C6, amended: when a keyword of a parameter matches and is followed by   *)
(* a run of fewer than count values, the row is count nulls unless another *)
(* keyword of the list matches and is followed by a run of at least count  *)
(* values; the row is then the last count values of the run after the      *)
(* first such keyword.  A row never mixes values and nulls.                *)
(***************************************************************************)
C6_NullsUnlessSynonymSuffices ==
    bi >= 1 =>
        LET t == Searchable(search_text)
        IN  \A f \in DOMAIN Keywords :
                LET count  == Len(sample_ids)
                    m      == Matching(t, f)
                    short  == {k \in m : Len(RunAfter(t, f, k)) < count}
                    enough == m \ short
                IN  short # {} =>
                        /\ enough = {} => rows[f] = Nones(count)
                        /\ enough # {} =>
                              LET k   == CHOOSE k \in enough : \A j \in enough : k <= j
                                  run == RunAfter(t, f, k)
                              IN  rows[f] = [i \in 1..count |->
                                                RawString(run[Len(run) - count + i])]
                        /\ \/ \A i \in DOMAIN rows[f] : rows[f][i] = Null
                           \/ \A i \in DOMAIN rows[f] : rows[f][i] # Null

\* two identifiers, one value after 'Fe' and one after 'Iron': the row is
\* two nulls
C6_Witness ==
    LET t == Searchable(search_text)
    IN  /\ bi >= 1
        /\ Len(sample_ids) = 2
        /\ Matching(t, "fe_ppm") = {1, 2}
        /\ Len(RunAfter(t, "fe_ppm", 1)) = 1
        /\ Len(RunAfter(t, "fe_ppm", 2)) = 1
        /\ rows.fe_ppm = <<Null, Null>>

(***************************************************************************)
(* C7: when the first run of values after the first matching keyword of a  *)
(* parameter holds k >= count values, the row is the last count of them in *)
(* their order, and the record of the block's i-th identifier takes its    *)
(* field from entry i, as it is or normalised.                             *)
(***************************************************************************)
C7_LastCountOfRun ==
    bi >= 1 =>
        LET t == Searchable(search_text)
        IN  \A f \in DOMAIN Keywords :
                Matching(t, f) # {} =>
                    LET count == Len(sample_ids)
                        run   == RunAfter(t, f, FirstMatching(t, f))
                        k     == Len(run)
                    IN  k >= count =>
                            /\ Len(rows[f]) = count
                            /\ \A i \in 1..count :
                                  /\ rows[f][i] = RawString(run[k - count + i])
                                  /\ BlockRecords[i].sample_id = RawString(sample_ids[i])
                                  /\ BlockRecords[i][f] \in
                                        {rows[f][i], parse_value(rows[f][i])}

\* two identifiers and a run of three different values after 'Fe': the first
\* value is left out
C7_Witness ==
    LET t == Searchable(search_text)
    IN  /\ bi >= 1
        /\ Len(sample_ids) = 2
        /\ Matching(t, "fe_ppm") # {}
        /\ LET run == RunAfter(t, "fe_ppm", FirstMatching(t, "fe_ppm"))
           IN  /\ Len(run) = 3
               /\ run[1] # run[2]
               /\ run[2] # run[3]
               /\ run[1] # run[3]
               /\ rows.fe_ppm = <<RawString(run[2]), RawString(run[3])>>

(***************************************************************************)
(* C8: the category of a block is one of the five and follows from the     *)
(* upper-cased text of the LookBack tokens before the block's first token  *)
(* (fewer at the start of the document): Port when 'PORT' occurs with no   *)
(* 'STBD' after its last occurrence, else Stbd when 'STBD' or 'STARBOARD'  *)
(* occurs, else No1, else No2 by their spellings, else Default.            *)
(***************************************************************************)
\* the positions at which p occurs in s
Occurrences(s, p) == {i \in 1..Len(s) : OccursAt(s, p, i)}

\* the text of the tokens of the window before token number start
Window(start) ==
    LET inside == {j \in 1..Len(tokens) : j < start /\ start - j <= LookBack}
    IN  IF inside = {} THEN << >>
        ELSE Upper(Join(tokens, CHOOSE j \in inside : \A h \in inside : j <= h,
                        start - 1))

Chain(w) ==
    LET port == Occurrences(w, PORT)
        stbd == Occurrences(w, STBD)
        no1  == UNION {Occurrences(w, p) : p \in { <<"N", "O", " ", "0", "1">>,
                                                   <<"N", "O", ".", "0", "1">>,
                                                   <<"N", "O", ".", " ", "0", "1">> }}
        no2  == UNION {Occurrences(w, p) : p \in { <<"N", "O", " ", "0", "2">>,
                                                   <<"N", "O", ".", "0", "2">>,
                                                   <<"N", "O", ".", " ", "0", "2">> }}
    IN  IF port # {} /\ \A j \in stbd : \E i \in port : j < i THEN "Port"
        ELSE IF stbd # {} \/ Occurrences(w, STARBOARD) # {} THEN "Stbd"
        ELSE IF no1 # {} THEN "No1"
        ELSE IF no2 # {} THEN "No2"
        ELSE "Default"

C8_PriorityChain ==
    bi >= 1 =>
        /\ category \in Categories
        /\ category = Chain(Window(blocks[bi][1]))
        /\ KeyIndex(categorized_records, category) # 0

\* 'PORT' is the token just before the window of a block, and the block is
\* not classified Port
C8_Witness ==
    /\ bi >= 1
    /\ blocks[bi][1] = LookBack + 2
    /\ Upper(tokens[1]) = PORT
    /\ ~Contains(Window(blocks[bi][1]), PORT)
    /\ category # "Port"

(***************************************************************************)
(* C9: parse_value returns for every input one of null, a number or a      *)
(* string: null for None, blank text and the placeholders in any case,     *)
(* 0.5 for what begins with '<' or '&lt;', the number for what parses as   *)
(* one once the commas are removed, and else the string it is given as     *)
(* the last argument here.  White space around the input is ignored.       *)
(***************************************************************************)
ValueMapping(v, r, unparsed) ==
    LET s == IF v.kind = "Null" THEN << >> ELSE Strip(v.str)
    IN  /\ r.kind \in {"Null", "Number", "RawString"}
        /\ IF s = << >> \/ Upper(s) \in { <<"N", "/", "A">>, <<"N", "/", "C">>,
                                           <<"N", "/", "I">>, <<"-">> }
           THEN r = Null
           ELSE IF s[1] = "<" \/ StartsWith(s, <<"&", "l", "t", ";">>)
           THEN r.kind = "Number" /\ r.mant = 5 /\ r.exp = 1 /\ ~r.nan
           ELSE IF float(Remove(s, ",")).kind = "Number"
           THEN r = float(Remove(s, ","))
           ELSE r = RawString(unparsed)

\* C9, as stated: what does not parse is returned as the original string
C9_UnparsedUnchanged ==
    pc = "returned" => ValueMapping(val, ret, val.str)

\* C9, amended: what does not parse is returned as the original string
\* without the white space around it
C9_UnparsedStripped ==
    pc = "returned" => ValueMapping(val, ret, Strip(val.str))

\* a string that is no number and has white space around it was returned
\* without the white space
C9_Witness ==
    /\ pc = "returned"
    /\ val.kind = "RawString"
    /\ Strip(val.str) # val.str
    /\ ret = RawString(Strip(val.str))
    /\ ret.str # << >>

(***************************************************************************)
(* C10: every parameter field of every record of a block holds the         *)
(* normalised form of the token extracted for it, and never a placeholder  *)
(* or a token that begins with '<'.                                        *)
(***************************************************************************)
C10_EveryFieldNormalized ==
    bi >= 1 =>
        \A i \in 1..Len(BlockRecords) :
            \A f \in DOMAIN Keywords :
                LET field == BlockRecords[i][f]
                IN  /\ field = parse_value(rows[f][i])
                    /\ field.kind = "RawString" =>
                          /\ Upper(Strip(field.str)) \notin Placeholders
                          /\ ~StartsWith(Strip(field.str), <<"<">>)

(***************************************************************************)
(* The header as the claims read it                                        *)
(***************************************************************************)
\* the first HeaderLen characters of the text the tokens are split from
HeaderText ==
    LET text == Normalize(content)
    IN  [i \in 1..(IF Len(text) < HeaderLen THEN Len(text) ELSE HeaderLen) |-> text[i]]

\* the parts of a string of the shape Y-M-D 10:00:00, whatever the lengths of
\* Y and M
DateParts(created) ==
    LET dashes == {i \in 1..Len(created) : created[i] = "-"}
        p1     == CHOOSE i \in dashes : \A j \in dashes : i <= j
        p2     == CHOOSE i \in dashes \ {p1} : \A j \in dashes \ {p1} : i <= j
    IN  [year  |-> Sub(created, 1, p1 - 1),
         month |-> Sub(created, p1 + 1, p2 - 1),
         day   |-> Sub(created, p2 + 1, p2 + 2),
         time  |-> Sub(created, p2 + 3, Len(created))]

\* whether created is the date of match m of the 'D Mon Y' form
IsDateOf(created, m) ==
    LET parts == DateParts(created)
        y     == DigitsValue(m.year)
    IN  /\ DigitsValue(parts.year) = (IF Len(m.year) = 2 THEN 2000 + y ELSE y)
        /\ Len(parts.month) = 2
        /\ Months[DigitsValue(parts.month)] = Upper(m.month)
        /\ Len(parts.day) = 2
        /\ DigitsValue(parts.day) = DigitsValue(m.day)
        /\ parts.time = TenOClock

(***************************************************************************)
(* C11: created_at_val is a string of the shape YYYY-MM-DD 10:00:00, and   *)
(* every record of the document carries it.                                *)
(***************************************************************************)
C11_CreatedAtShape ==
    pc # "start" =>
        /\ Len(created_at_val) = 19
        /\ \A i \in {1, 2, 3, 4, 6, 7, 9, 10} : created_at_val[i] \in Digits
        /\ created_at_val[5] = "-"
        /\ created_at_val[8] = "-"
        /\ Sub(created_at_val, 11, 19) = TenOClock
        /\ \A k \in 1..Len(categorized_records) :
              \A i \in 1..Len(categorized_records[k].records) :
                  categorized_records[k].records[i].created_at = RawString(created_at_val)

(***************************************************************************)
(* C12: the date is taken from the first HeaderLen characters: the first   *)
(* 'D Mon Y' date after the date label, else the first 'D.M.Y' date after  *)
(* it, whatever the year; without a labelled date the first 'D Mon Y' date *)
(* of the header whose year is 2023 or later; else 2025-01-01.             *)
(***************************************************************************)
C12_DatePriority ==
    pc # "start" =>
        LET header  == HeaderText
            after   == DateKeywordEnd(header)
            post    == IF after = 0 THEN << >> ELSE Sub(header, after, Len(header))
            named   == SearchDate(post, 1)
            dotted  == SearchDotted(post)
            all     == FindAllDates(header, 1)
            recent  == {k \in 1..Len(all) :
                           DigitsValue(all[k].year)
                               + (IF Len(all[k].year) = 2 THEN 2000 ELSE 0) >= 2023}
        IN  IF named.found THEN IsDateOf(created_at_val, named)
            ELSE IF dotted.found
            THEN LET parts == DateParts(created_at_val)
                 IN  /\ DigitsValue(parts.year) = DigitsValue(dotted.year)
                            + (IF Len(dotted.year) = 2 THEN 2000 ELSE 0)
                     /\ Len(parts.month) = 2
                     /\ DigitsValue(parts.month) = DigitsValue(dotted.month)
                     /\ DigitsValue(parts.day) = DigitsValue(dotted.day)
                     /\ parts.time = TenOClock
            ELSE IF recent # {}
            THEN IsDateOf(created_at_val, all[CHOOSE k \in recent : \A j \in recent : k <= j])
            ELSE created_at_val = DefaultDate

\* no labelled date; the first date of the header is of a year before 2023
\* and is passed over for a later one
C12_Witness ==
    /\ pc # "start"
    /\ LET all == FindAllDates(HeaderText, 1)
       IN  /\ DateKeywordEnd(HeaderText) = 0
           /\ Len(all) >= 2
           /\ DigitsValue(WithCentury(all[1].year)) < 2023
           /\ IsDateOf(created_at_val, all[2])
           /\ ~IsDateOf(created_at_val, all[1])

(***************************************************************************)
(* C13: the blocks are non-empty runs of consecutive positions of sample   *)
(* identifier tokens, with no sample identifier just before or just after  *)
(* a block, in increasing order, and every position of a sample identifier *)
(* token is in exactly one block.                                          *)
(***************************************************************************)
\* whether token number p is a sample identifier: it holds 'S/I' and an 'M'
IsIdPosition(p) ==
    /\ p \in 1..Len(tokens)
    /\ \E i \in 1..(Len(tokens[p]) - 2) : Sub(tokens[p], i, i + 2) = <<"S", "/", "I">>
    /\ \E i \in 1..Len(tokens[p]) : tokens[p][i] = "M"

C13_BlocksPartition ==
    pc # "start" =>
        /\ \A b \in 1..Len(blocks) :
              /\ Len(blocks[b]) >= 1
              /\ \A i \in 1..Len(blocks[b]) : IsIdPosition(blocks[b][i])
              /\ \A i \in 1..(Len(blocks[b]) - 1) : blocks[b][i + 1] = blocks[b][i] + 1
              /\ ~IsIdPosition(blocks[b][1] - 1)
              /\ ~IsIdPosition(blocks[b][Len(blocks[b])] + 1)
              /\ b < Len(blocks) => blocks[b][Len(blocks[b])] < blocks[b + 1][1]
        /\ \A p \in 1..Len(tokens) :
              IsIdPosition(p) =>
                  Cardinality({x \in (1..Len(blocks)) \X (1..Len(tokens)) :
                                  x[2] <= Len(blocks[x[1]]) /\ blocks[x[1]][x[2]] = p}) = 1

\* a block of two sample identifiers and a later block
C13_Witness ==
    /\ pc # "start"
    /\ Len(blocks) >= 2
    /\ Len(blocks[1]) = 2
    /\ blocks[2][1] > blocks[1][2] + 1

(***************************************************************************)
(* C14: a document without a sample identifier token gives an empty result *)
(* and leaves every file as it was; a result that is not empty has a       *)
(* record for each of its categories.                                      *)
(***************************************************************************)
C14_NothingWithoutIds ==
    /\ (pc # "start" /\ \A p \in 1..Len(tokens) : ~IsIdPosition(p)) =>
          /\ categorized_records = << >>
          /\ written = << >>
          /\ \A f \in Files : files[f] = NoFile
    /\ \A k \in 1..Len(categorized_records) : categorized_records[k].records # << >>

\* process_file has returned on a document that has tokens, none of them a
\* sample identifier
C14_Witness ==
    /\ pc = "done"
    /\ Len(tokens) >= 2
    /\ \A p \in 1..Len(tokens) : ~IsIdPosition(p)
    /\ \A f \in Files : ~files[f].exists

(***************************************************************************)
(* C15: a category the loop of process_file has handled was written to the *)
(* file of its own entry of the output map, else to the file of the        *)
(* Default entry, else to no file; every category of the document is       *)
(* handled, whatever became of the ones before it.                         *)
(***************************************************************************)
C15_OwnFileElseDefault ==
    /\ \A k \in 1..ci :
          LET c      == categorized_records[k].category
              writes == {w \in 1..Len(written) : written[w].category = c}
          IN  IF c \in DOMAIN output_map
              THEN /\ Cardinality(writes) = 1
                   /\ \A w \in writes : written[w].target_file = output_map[c]
                   /\ files[output_map[c]].exists
              ELSE IF "Default" \in DOMAIN output_map
              THEN /\ Cardinality(writes) = 1
                   /\ \A w \in writes : written[w].target_file = output_map["Default"]
                   /\ files[output_map["Default"]].exists
              ELSE writes = {}
    /\ pc = "done" => ci = Len(categorized_records)
    /\ Len(written) <= ci

\* the first category of the document had no file and was dropped, and a later
\* one was written
C15_Witness ==
    /\ pc = "done"
    /\ Len(categorized_records) >= 2
    /\ categorized_records[1].category \notin DOMAIN output_map
    /\ "Default" \notin DOMAIN output_map
    /\ Len(written) >= 1
    /\ written[1].category = categorized_records[2].category

(***************************************************************************)
(* C17: when process_file has returned, every record written for a         *)
(* category is in the file the category was written to.                    *)
(***************************************************************************)
C17_NoWriteLost ==
    pc = "done" =>
        \A w \in 1..Len(written) :
            \A i \in 1..Len(written[w].records) :
                \E j \in 1..Len(files[written[w].target_file].records) :
                    files[written[w].target_file].records[j] = written[w].records[i]

(***************************************************************************)
(* C18  The prediction shim reports a model that cannot be loaded          *)
(***************************************************************************)

\* the model files load_model fails on with an exception
Unloadable(file) == file.kind \in {"missing", "corrupt"}

\* main has loaded the model, that is it got past lines 75-79
PastLoading == pc \in {"loaded", "print"} \/ (pc = "exit" /\ exit_code = 0)

\* C18: whenever the model file cannot be loaded, main prints exactly one
\* result with success = false and error = 'Failed to load ML model' and never
\* calls predict with a value that is not a loaded model; on every path main
\* prints exactly one JSON object carrying a boolean success field.
C18_LoadFailureReported ==
    /\ (Unloadable(model_file) /\ PastLoading) =>
           /\ \A i \in 1..Len(predict_calls) : predict_calls[i].kind = "Model"
           /\ pc = "exit" => stdout = <<Failure("Failed to load ML model")>>
    /\ pc = "exit" =>
           /\ Len(stdout) = 1
           /\ "success" \in DOMAIN stdout[1]
           /\ stdout[1].success \in BOOLEAN

=============================================================================
